---- MODULE Spec2Model ----
(***************************************************************************)
(* A model of pysme's scalar-noise SDE integrators (src/src/pysme/sde.py)  *)
(* and of the grid-convergence harness (src/grid_conv.py).                 *)
(*                                                                         *)
(* Numbers are exact elements of the field Q(sqrt 2, sqrt 3): the code's   *)
(* np.sqrt(2), np.sqrt(3) and np.sqrt(dt) stay inside it for the grids     *)
(* used here, so every formula of the code is computed as written, with    *)
(* floating-point rounding left out.  State vectors have one component.    *)
(***************************************************************************)
EXTENDS Integers, Sequences, FiniteSets, TLC

(***************************************************************************)
(* Bounds of the model.                                                    *)
(***************************************************************************)
\* largest number of time intervals of a grid handed to double_increments
MaxIntervals == 5
\* largest number of noise rows (trajectories) in a batch
MaxRows == 2
\* largest number of freely chosen entries of a U1s batch
MaxCells == 6
\* time points of the integrators' grids are drawn from 0..MaxT
MaxT == 4
\* longest noise / measurement sequence handed to an integrator
MaxNoiseLen == 3
\* longest grid (in steps) on which dW_fn and the diffusion both depend on X
MaxSquaringSteps == 1

(***************************************************************************)
(* Exact arithmetic in Q(sqrt 2, sqrt 3).  <<a, b, c, d, q>> stands for    *)
(* (a + b*sqrt(2) + c*sqrt(3) + d*sqrt(6)) / q with q > 0, in lowest terms.*)
(***************************************************************************)
AbsInt(n) == IF n < 0 THEN -n ELSE n

RECURSIVE GCD(_, _)
GCD(m, n) == IF n = 0 THEN m ELSE GCD(n, m % n)

GCD5(x) ==
    GCD(GCD(GCD(GCD(AbsInt(x[1]), AbsInt(x[2])), AbsInt(x[3])), AbsInt(x[4])),
        AbsInt(x[5]))

DivAll(x, s) == <<x[1] \div s, x[2] \div s, x[3] \div s, x[4] \div s, x[5] \div s>>

\* lowest terms, positive denominator
Norm(x) == DivAll(x, IF x[5] < 0 THEN -GCD5(x) ELSE GCD5(x))

R(n) == <<n, 0, 0, 0, 1>>

Zero == R(0)

Sqrt2 == <<0, 1, 0, 0, 1>>

Sqrt3 == <<0, 0, 1, 0, 1>>

\* x + y over the common denominator fx * x[5] = fy * y[5]
AddOver(x, y, fx, fy) ==
    Norm(<<x[1] * fx + y[1] * fy, x[2] * fx + y[2] * fy,
           x[3] * fx + y[3] * fy, x[4] * fx + y[4] * fy,
           x[5] * fx>>)

Add(x, y) == AddOver(x, y, y[5] \div GCD(x[5], y[5]), x[5] \div GCD(x[5], y[5]))

Neg(x) == <<-x[1], -x[2], -x[3], -x[4], x[5]>>

Sub(x, y) == Add(x, Neg(y))

Mul(x, y) ==
    Norm(<<x[1] * y[1] + 2 * x[2] * y[2] + 3 * x[3] * y[3] + 6 * x[4] * y[4],
           x[1] * y[2] + x[2] * y[1] + 3 * (x[3] * y[4] + x[4] * y[3]),
           x[1] * y[3] + x[3] * y[1] + 2 * (x[2] * y[4] + x[4] * y[2]),
           x[1] * y[4] + x[4] * y[1] + x[2] * y[3] + x[3] * y[2],
           x[5] * y[5]>>)

\* 1/y for a divisor with a single term (n, n*sqrt 2, n*sqrt 3, n*sqrt 6 over
\* q): the only divisors the code uses (2, 3, sqrt 2, sqrt 3, 2*sqrt 2).
Inv(y) ==
    IF y[1] # 0 THEN Norm(<<y[5], 0, 0, 0, y[1]>>)
    ELSE IF y[2] # 0 THEN Norm(<<0, y[5], 0, 0, 2 * y[2]>>)
    ELSE IF y[3] # 0 THEN Norm(<<0, 0, y[5], 0, 3 * y[3]>>)
    ELSE Norm(<<0, 0, 0, y[5], 6 * y[4]>>)

Div(x, y) == Mul(x, Inv(y))

\* np.sqrt of a positive integer s*s*m with m in {1, 2, 3, 6}
SqrtDomain == {1, 2, 3, 4, 6, 8, 9, 12}

SqrtInt(n) ==
    LET s == CHOOSE k \in 1..n : \E m \in {1, 2, 3, 6} : k * k * m = n
        m == n \div (s * s)
    IN  IF m = 1 THEN <<s, 0, 0, 0, 1>>
        ELSE IF m = 2 THEN <<0, s, 0, 0, 1>>
        ELSE IF m = 3 THEN <<0, 0, s, 0, 1>>
        ELSE <<0, 0, 0, s, 1>>

\* sign of p + r*sqrt(k) for integers p, r and k in {2, 3, 6}
SignInt(n) == IF n > 0 THEN 1 ELSE IF n < 0 THEN -1 ELSE 0

SignQuad(p, r, k) ==
    IF SignInt(p) * SignInt(r) >= 0
    THEN (IF p # 0 THEN SignInt(p) ELSE SignInt(r))
    ELSE IF p * p > k * r * r THEN SignInt(p)
    ELSE SignInt(r)

\* sign of x = A + sqrt(2)*B with A = a + c*sqrt 3 and B = b + d*sqrt 3
Sign(x) ==
    LET sa == SignQuad(x[1], x[3], 3)
        sb == SignQuad(x[2], x[4], 3)
        \* A*A - 2*B*B = p + r*sqrt(3)
        p == x[1] * x[1] + 3 * x[3] * x[3] - 2 * (x[2] * x[2] + 3 * x[4] * x[4])
        r == 2 * x[1] * x[3] - 4 * x[2] * x[4]
    IN  IF sa * sb >= 0 THEN (IF sa # 0 THEN sa ELSE sb)
        ELSE IF SignQuad(p, r, 3) > 0 THEN sa
        ELSE sb

Abs(x) == IF Sign(x) < 0 THEN Neg(x) ELSE x

(***************************************************************************)
(* numpy helpers: slices and broadcasting of one axis.                     *)
(***************************************************************************)
\* a slice that stops one short: s[:-1:2]
EvenSliceShort(s) == [i \in 1..(Len(s) \div 2) |-> s[2 * i - 1]]

\* s[::2]
EvenSlice(s) == [i \in 1..((Len(s) + 1) \div 2) |-> s[2 * i - 1]]

\* s[1::2]
OddSlice(s) == [i \in 1..(Len(s) \div 2) |-> s[2 * i]]

\* length of the broadcast of two axes of lengths m and n; -1: ValueError
BroadcastLen(m, n) ==
    IF m = n THEN m ELSE IF m = 1 THEN n ELSE IF n = 1 THEN m ELSE -1

\* the entry of an axis of length m that lands on index i of the broadcast
BIdx(m, i) == IF m = 1 THEN 1 ELSE i

Cols(A) == Len(A[1])

\* elementwise f(A, B) of two 2-d arrays (sequences of rows) with broadcasting
Shape2Ok(A, B) ==
    /\ BroadcastLen(Len(A), Len(B)) >= 0
    /\ BroadcastLen(Cols(A), Cols(B)) >= 0

Elementwise2(f(_, _), A, B) ==
    [r \in 1..BroadcastLen(Len(A), Len(B)) |->
        [c \in 1..BroadcastLen(Cols(A), Cols(B)) |->
            f(A[BIdx(Len(A), r)][BIdx(Cols(A), c)],
              B[BIdx(Len(B), r)][BIdx(Cols(B), c)])]]

Map2(f(_), A) == [r \in 1..Len(A) |-> [c \in 1..Cols(A) |-> f(A[r][c])]]

Columns(sl(_), A) == [r \in 1..Len(A) |-> sl(A[r])]

(***************************************************************************)
(* double_increments (grid_conv.py)                                        *)
(***************************************************************************)
NoU2s == <<>>

\* the mean of the pair's sum in place of its sum over sqrt(2)
DivTwo(x) == Div(x, R(2))

DivSqrt2(x) == Div(x, Sqrt2)

\* new_U1s = (even_U1s + odd_U1s)/np.sqrt(2)
NewU1s(U1s) ==
    Map2(DivSqrt2, Elementwise2(Add, Columns(EvenSlice, U1s), Columns(OddSlice, U1s)))

MulSqrt3(x) == Mul(Sqrt3, x)

Div2Sqrt2(x) == Div(x, Mul(R(2), Sqrt2))

\* new_U2s with the difference of the U1s taken the other way round
NewU2sSwapped(U1s, U2s) ==
    Map2(Div2Sqrt2,
         Elementwise2(Add,
            Elementwise2(Add,
                Map2(MulSqrt3, Elementwise2(Sub, Columns(OddSlice, U1s),
                                                 Columns(EvenSlice, U1s))),
                Columns(EvenSlice, U2s)),
            Columns(OddSlice, U2s)))

\* new_U2s = (np.sqrt(3)*(even_U1s - odd_U1s) + even_U2s + odd_U2s)/(2*np.sqrt(2))
NewU2s(U1s, U2s) ==
    Map2(Div2Sqrt2,
         Elementwise2(Add,
            Elementwise2(Add,
                Map2(MulSqrt3, Elementwise2(Sub, Columns(EvenSlice, U1s),
                                                 Columns(OddSlice, U1s))),
                Columns(EvenSlice, U2s)),
            Columns(OddSlice, U2s)))

\* whether the numpy expressions of lines 50 and 57-58 broadcast
NewU1sOk(U1s) == Shape2Ok(Columns(EvenSlice, U1s), Columns(OddSlice, U1s))

NewU2sOk(U1s, U2s) ==
    /\ NewU1sOk(U1s)
    /\ Shape2Ok(Elementwise2(Sub, Columns(EvenSlice, U1s), Columns(OddSlice, U1s)),
                Columns(EvenSlice, U2s))
    /\ Shape2Ok(Elementwise2(Add,
                    Elementwise2(Sub, Columns(EvenSlice, U1s), Columns(OddSlice, U1s)),
                    Columns(EvenSlice, U2s)),
                Columns(OddSlice, U2s))

\* the value double_increments returns: a pair, a triple, or a raised ValueError
double_increments(times, U1s, U2s, hasU2s) ==
    IF ~NewU1sOk(U1s)
    THEN [status |-> "ValueError", arity |-> 0, new_times |-> <<>>,
          new_U1s |-> <<>>, new_U2s |-> <<>>]
    ELSE IF ~hasU2s
    THEN [status |-> "ok", arity |-> 2, new_times |-> EvenSlice(times),
          new_U1s |-> NewU1s(U1s), new_U2s |-> <<>>]
    ELSE IF ~NewU2sOk(U1s, U2s)
    THEN [status |-> "ValueError", arity |-> 0, new_times |-> <<>>,
          new_U1s |-> <<>>, new_U2s |-> <<>>]
    ELSE [status |-> "ok", arity |-> 3, new_times |-> EvenSlice(times),
          new_U1s |-> NewU1s(U1s), new_U2s |-> NewU2s(U1s, U2s)]

(***************************************************************************)
(* Coefficient callables.  A callable is <<c0, cX, ct>>, the function      *)
(* (X, t) |-> c0 + cX*X + ct*t; the order-1.5 scheme calls it with X only. *)
(***************************************************************************)
Call2(f, X, t) == Add(Add(R(f[1]), Mul(R(f[2]), X)), R(f[3] * t))

Call1(f, X) == Add(R(f[1]), Mul(R(f[2]), X))

ZeroFn == <<0, 0, 0>>

ConstFn(k) == <<k, 0, 0>>

IdFn == <<0, 1, 0>>

TimeFn == <<0, 0, 1>>

AllZero ==
    [drift |-> ZeroFn, diffusion |-> ZeroFn, b_dx_b |-> ZeroFn, b_dx_a |-> ZeroFn,
     a_dx_b |-> ZeroFn, a_dx_a |-> ZeroFn, b_dx_b_dx_b |-> ZeroFn,
     b_b_dx_dx_b |-> ZeroFn, b_b_dx_dx_a |-> ZeroFn]

\* the bundles of callables an integrator is called with
Models ==
    [zero    |-> AllZero,
     \* a = k, b = 0
     const   |-> [AllZero EXCEPT !.drift = ConstFn(2)],
     \* a = t, b = 1: time-dependent drift, additive noise
     timedep |-> [AllZero EXCEPT !.drift = TimeFn, !.diffusion = ConstFn(1)],
     \* a = 0, b = 1: driftless, additive noise
     additive |-> [AllZero EXCEPT !.diffusion = ConstFn(1)],
     \* a = 0, b = X: driftless geometric Brownian motion
     gbm     |-> [AllZero EXCEPT !.diffusion = IdFn, !.b_dx_b = IdFn,
                                 !.b_dx_b_dx_b = IdFn],
     \* a = X, b = X
     linear  |-> [AllZero EXCEPT !.drift = IdFn, !.diffusion = IdFn,
                                 !.b_dx_b = IdFn, !.b_dx_a = IdFn, !.a_dx_b = IdFn,
                                 !.a_dx_a = IdFn, !.b_dx_b_dx_b = IdFn],
     \* callables passed independently of each other: a = 0 with (a.d)a = 1
     loose   |-> [AllZero EXCEPT !.diffusion = ConstFn(1), !.a_dx_a = ConstFn(1)],
     \* a = 0 with (a.d)a + (bb dd a)/2 = 0, neither of them zero
     cancel  |-> [AllZero EXCEPT !.diffusion = ConstFn(1), !.a_dx_a = ConstFn(1),
                                 !.b_b_dx_dx_a = ConstFn(-2)]]

ModelNames == DOMAIN Models

TimeIndependent(m) == \A f \in DOMAIN Models[m] : Models[m][f][3] = 0

\* dW_fn(dM, dt, X, t) of the measurement-conditioned integrators
DWFnNames == {"scaled", "innovation"}

dW_fn(name, dM, dt, X, t) ==
    IF name = "scaled" THEN Mul(dM, SqrtInt(dt))
    ELSE Sub(dM, Mul(Add(X, R(t)), R(dt)))

(***************************************************************************)
(* The integrators of sde.py: set-up, loop body, and the fold of the loop. *)
(***************************************************************************)
Min(a, b) == IF a < b THEN a ELSE b

\* dts = [tf - ti for tf, ti in zip(ts[1:], ts[:-1])]   /   ts[1:] - ts[:-1]
Dts(ts) == [i \in 1..(IF Len(ts) = 0 THEN 0 ELSE Len(ts) - 1) |-> ts[i + 1] - ts[i]]

ScalarNoise == {"euler", "milstein", "faulty_milstein"}

MeasFns == {"meas_euler", "meas_milstein"}

Integrators == ScalarNoise \cup MeasFns \cup {"time_ind_taylor_1_5"}

\* np.array([sqrtdts, Us]) of rows of different lengths is a ValueError in
\* numpy >= 1.24 and an array of two objects before; np.product(..., axis=0)
\* then multiplies the two rows with broadcasting.
NumpyBuilds == {"ragged_raises", "ragged_object"}

\* the length of dWs for n time steps and m noise entries; -1: ValueError
DWsLen(fn, build, n, m, m2) ==
    IF fn \in ScalarNoise
    THEN (IF n = m THEN n
          ELSE IF build = "ragged_raises" THEN -1 ELSE BroadcastLen(n, m))
    ELSE IF fn = "time_ind_taylor_1_5"
    THEN (IF BroadcastLen(m, n) < 0 \/ BroadcastLen(m, m2) < 0 THEN -1
          ELSE IF BroadcastLen(BroadcastLen(m, m2), n) < 0 THEN -1
          ELSE BroadcastLen(m, n))
    ELSE n

\* dWs with the rows added instead of multiplied
DWsSum(dts, Us) ==
    [i \in 1..BroadcastLen(Len(dts), Len(Us)) |->
        Add(SqrtInt(dts[BIdx(Len(dts), i)]), Us[BIdx(Len(Us), i)])]

\* dWs = np.product(np.array([sqrtdts, Us]), axis=0)   /   U1s*sqrtdts
DWs(dts, Us) ==
    [i \in 1..BroadcastLen(Len(dts), Len(Us)) |->
        Mul(SqrtInt(dts[BIdx(Len(dts), i)]), Us[BIdx(Len(Us), i)])]

\* dZs = (U1s + U2s/np.sqrt(3))*sqrtdts*dts/2
DZs(dts, U1s, U2s) ==
    [i \in 1..BroadcastLen(BroadcastLen(Len(U1s), Len(U2s)), Len(dts)) |->
        Div(Mul(Mul(Add(U1s[BIdx(Len(U1s), i)],
                        Div(U2s[BIdx(Len(U2s), i)], Sqrt3)),
                    SqrtInt(dts[BIdx(Len(dts), i)])),
                R(dts[BIdx(Len(dts), i)])),
            R(2))]

\* the number of iterations of  for ... in zip(ts[:-1], dts, <noise>)
Iterations(fn, ts, Us, U2s, build) ==
    LET n == Len(Dts(ts))
    IN  IF fn \in ScalarNoise THEN Min(n, DWsLen(fn, build, n, Len(Us), 0))
        ELSE IF fn \in MeasFns THEN Min(n, Len(Us))
        ELSE Min(Min(n, DWsLen(fn, build, n, Len(Us), Len(U2s))),
                 BroadcastLen(BroadcastLen(Len(Us), Len(U2s)), n))

Sq(x) == Mul(x, x)

\* the Euler increment with dt and dW swapped
EulerIncSwapped(m, X, t, dt, dW) ==
    Add(Mul(Call2(m.drift, X, t), dW), Mul(Call2(m.diffusion, X, t), R(dt)))

\* drift_fn(X[-1], t)*dt + diffusion_fn(X[-1], t)*dW
EulerInc(m, X, t, dt, dW) ==
    Add(Mul(Call2(m.drift, X, t), R(dt)), Mul(Call2(m.diffusion, X, t), dW))

\* ... + b_dx_b(X[-1], t)*(dW**2 - dt)/2
MilsteinInc(m, X, t, dt, dW) ==
    Add(EulerInc(m, X, t, dt, dW),
        Div(Mul(Call2(m.b_dx_b, X, t), Sub(Sq(dW), R(dt))), R(2)))

\* the faulty increment with the factor 1/2 restored
FaultyMilsteinIncHalved(m, X, t, dt, dW) ==
    Add(EulerInc(m, X, t, dt, dW),
        Div(Mul(Call2(m.b_dx_b, X, t), Sub(Sq(dW), R(dt))), R(2)))

\* ... + b_dx_b(X[-1], t)*(dW**2 - dt)
FaultyMilsteinInc(m, X, t, dt, dW) ==
    Add(EulerInc(m, X, t, dt, dW),
        Mul(Call2(m.b_dx_b, X, t), Sub(Sq(dW), R(dt))))

\* the seven terms of lines 325-329
TaylorInc(m, X, dt, dW, dZ) ==
    LET t1 == Mul(Call1(m.drift, X), R(dt))
        t2 == Mul(Call1(m.diffusion, X), dW)
        t3 == Div(Mul(Call1(m.b_dx_b, X), Sub(Sq(dW), R(dt))), R(2))
        t4 == Mul(Call1(m.b_dx_a, X), dZ)
        t5 == Mul(Add(Call1(m.a_dx_b, X), Div(Call1(m.b_b_dx_dx_b, X), R(2))),
                  Sub(Mul(dW, R(dt)), dZ))
        t6 == Div(Mul(Add(Call1(m.a_dx_a, X), Div(Call1(m.b_b_dx_dx_a, X), R(2))),
                      R(dt * dt)), R(2))
        t7 == Div(Mul(Mul(Call1(m.b_dx_b_dx_b, X), Sub(Div(Sq(dW), R(3)), R(dt))),
                      dW), R(2))
    IN  Add(Add(Add(Add(Add(Add(t1, t2), t3), t4), t5), t6), t7)

\* the Wiener increment the loop body of step k uses
\* dW_fn handed the initial state instead of the current one
LoopDWStale(c, k, X) ==
    IF c.fn \in MeasFns
    THEN dW_fn(c.dW_fn, c.Us[k], c.dts[k], c.X[1], c.ts[k])
    ELSE c.dWs[k]

LoopDW(c, k, X) ==
    IF c.fn \in MeasFns
    THEN dW_fn(c.dW_fn, c.Us[k], c.dts[k], X, c.ts[k])
    ELSE c.dWs[k]

\* the increment of one step, by scheme
Increment(fn, m, X, t, dt, dW, dZ) ==
    IF fn \in {"euler", "meas_euler"} THEN EulerInc(m, X, t, dt, dW)
    ELSE IF fn \in {"milstein", "meas_milstein"} THEN MilsteinInc(m, X, t, dt, dW)
    ELSE IF fn = "faulty_milstein" THEN FaultyMilsteinInc(m, X, t, dt, dW)
    ELSE TaylorInc(m, X, dt, dW, dZ)

\* the loop body reading the time at the end of the step instead of its start
NextRowLate(c, k, X) ==
    Add(X, Increment(c.fn, Models[c.model], X, c.ts[k + 1], c.dts[k], LoopDW(c, k, X),
                     IF c.fn = "time_ind_taylor_1_5" THEN c.dZs[k] ELSE Zero))

\* the row the loop body of step k appends to a trajectory that ends in X
NextRow(c, k, X) ==
    Add(X, Increment(c.fn, Models[c.model], X, c.ts[k], c.dts[k], LoopDW(c, k, X),
                     IF c.fn = "time_ind_taylor_1_5" THEN c.dZs[k] ELSE Zero))

\* the call as it stands after the set-up lines (X = np.array([X0])), before
\* the loop, or as it raised
Raises(fn, build, ts, Us, U2s) ==
    fn \notin MeasFns /\ DWsLen(fn, build, Len(Dts(ts)), Len(Us), Len(U2s)) < 0

Raised(fn, model, dwfn, X0, ts, Us, U2s, build) ==
    [fn |-> fn, model |-> model, dW_fn |-> dwfn, X0 |-> X0, ts |-> ts,
     Us |-> Us, U2s |-> U2s, build |-> build, dts |-> Dts(ts), dWs |-> <<>>,
     dZs |-> <<>>, iters |-> 0, k |-> 1, X |-> <<>>, calls |-> <<>>, pc |-> "raised"]

Ready(fn, model, dwfn, X0, ts, Us, U2s, build) ==
    [fn |-> fn, model |-> model, dW_fn |-> dwfn, X0 |-> X0, ts |-> ts,
     Us |-> Us, U2s |-> U2s, build |-> build, dts |-> Dts(ts),
     dWs |-> IF fn \in MeasFns THEN <<>> ELSE DWs(Dts(ts), Us),
     dZs |-> IF fn # "time_ind_taylor_1_5" THEN <<>> ELSE DZs(Dts(ts), Us, U2s),
     iters |-> Iterations(fn, ts, Us, U2s, build),
     k |-> 1, X |-> <<R(X0)>>, calls |-> <<>>, pc |-> "loop"]

SetUp(fn, model, dwfn, X0, ts, Us, U2s, build) ==
    IF Raises(fn, build, ts, Us, U2s)
    THEN Raised(fn, model, dwfn, X0, ts, Us, U2s, build)
    ELSE Ready(fn, model, dwfn, X0, ts, Us, U2s, build)

\* the arguments of the call dW_fn(dM, dt, X[-1], t) of step k
DWFnCall(c, k, X) == [dM |-> c.Us[k], dt |-> c.dts[k], X |-> X, t |-> c.ts[k]]

\* one pass through the loop body; calls lists the calls made of dW_fn
LoopBody(c) == [c EXCEPT !.X = Append(c.X, NextRow(c, c.k, c.X[Len(c.X)])),
                         !.calls = IF c.fn \in MeasFns
                                   THEN Append(@, DWFnCall(c, c.k, c.X[Len(c.X)]))
                                   ELSE @,
                         !.k = c.k + 1]

\* the whole call: the trajectory returned, or the call as raised
RECURSIVE RunLoop(_)
RunLoop(c) ==
    IF c.pc = "raised" THEN c
    ELSE IF c.k > c.iters THEN [c EXCEPT !.pc = "returned"]
    ELSE RunLoop(LoopBody(c))

Integrate(fn, model, dwfn, X0, ts, Us, U2s, build) ==
    RunLoop(SetUp(fn, model, dwfn, X0, ts, Us, U2s, build))

(***************************************************************************)
(* The convergence drivers of grid_conv.py.                                *)
(***************************************************************************)
Drivers == {"milstein_grid_convergence", "faulty_milstein_grid_convergence",
            "homodyne_strong_grid_convergence"}

\* The physical model (rho_0, c_op, M_sq, N, H, basis) reaches the integrators
\* through pysme.integrate, as a bundle of callables and an initial state.
DriverModel == "linear"

DriverX0 == 1

\* homodyne_gauss_integrate / faulty_homodyne_gauss_integrate (pysme.integrate):
\* Milstein, resp. faulty Milstein, integration of the model over times with Us
Outcome(c) == [pc |-> c.pc, X |-> c.X, ts |-> c.ts, U1s |-> c.Us, U2s |-> c.U2s]

homodyne_gauss_integrate(fn, times, Us, build) ==
    Outcome(Integrate(IF fn = "milstein_grid_convergence" THEN "milstein"
                      ELSE "faulty_milstein",
                      DriverModel, "scaled", DriverX0, times, Us, <<>>, build))

\* prep_homodyne_gauss_1_5 (pysme.integrate): the keyword arguments of the
\* order-1.5 integrator, without ts, U1s and U2s
prep_homodyne_gauss_1_5 == [set |-> FALSE, ts |-> <<>>, U1s |-> <<>>, U2s |-> <<>>]

\* integrator_fn(**keyword_args)
integrator_fn(kw) ==
    Outcome(Integrate("time_ind_taylor_1_5", DriverModel, "scaled", DriverX0,
                      kw.ts, kw.U1s, kw.U2s, "ragged_raises"))

\* keyword_args.update({'ts': times, 'U1s': U1s, 'U2s': U2s})
Update(kw, times, U1s, U2s) ==
    [kw EXCEPT !.set = TRUE, !.ts = times, !.U1s = U1s, !.U2s = U2s]

\* l1_norm of a vector with one component
l1_norm(x) == Abs(x)

Last(X) == X[Len(X)]

\* (np.log(l1_norm(rhos_4[-1] - rhos_2[-1])) - np.log(l1_norm(rhos_2[-1] - rhos[-1])))
\* /np.log(2): the rate is kept as the pair of norms whose logarithms it takes
Rate(rhos, rhos_2, rhos_4) ==
    [kind |-> "rate",
     coarse |-> l1_norm(Sub(Last(rhos_4), Last(rhos_2))),
     fine |-> l1_norm(Sub(Last(rhos_2), Last(rhos)))]

\* the second of the two refinements of lines 104-105, 156-157 and 235-236
SecondRefine(r2, hasU2s) ==
    IF r2.status # "ok" THEN [status |-> r2.status, r2 |-> r2, r4 |-> r2]
    ELSE [status |-> "ok", r2 |-> r2,
          r4 |-> double_increments(r2.new_times, r2.new_U1s, r2.new_U2s, hasU2s)]

Refine2(times, U1s, U2s, hasU2s) ==
    SecondRefine(double_increments(times, U1s, U2s, hasU2s), hasU2s)

\* the driver after both refinements: the names bound, or the error raised
Refined(d, r) ==
    IF r.status # "ok" \/ r.r4.status # "ok" THEN [d EXCEPT !.pc = "raised"]
    ELSE [d EXCEPT !.times_2 = r.r2.new_times,
                   !.U1s_2 = r.r2.new_U1s, !.U2s_2 = r.r2.new_U2s,
                   !.times_4 = r.r4.new_times,
                   !.U1s_4 = r.r4.new_U1s, !.U2s_4 = r.r4.new_U2s,
                   !.pc = "integrate"]

\* meta_kwargs: one work item per row of zip(U1s, U2s, U1s_2, U2s_2, U1s_4, U2s_4)
MinLen(seqs) == CHOOSE n \in {Len(q) : q \in seqs} : \A q \in seqs : n <= Len(q)

\* work items that take the 2x noise of the rows in reverse order
MetaKwargsCrossed(d) ==
    [i \in 1..MinLen({d.U1s, d.U2s, d.U1s_2, d.U2s_2, d.U1s_4, d.U2s_4}) |->
        [kind |-> "work_item",
         times |-> d.times, U1s |-> d.U1s[i], U2s |-> d.U2s[i],
         times_2 |-> d.times_2, U1s_2 |-> d.U1s_2[Len(d.U1s_2) + 1 - i],
         U2s_2 |-> d.U2s_2[i],
         times_4 |-> d.times_4, U1s_4 |-> d.U1s_4[i], U2s_4 |-> d.U2s_4[i]]]

MetaKwargs(d) ==
    [i \in 1..MinLen({d.U1s, d.U2s, d.U1s_2, d.U2s_2, d.U1s_4, d.U2s_4}) |->
        [kind |-> "work_item",
         times |-> d.times, U1s |-> d.U1s[i], U2s |-> d.U2s[i],
         times_2 |-> d.times_2, U1s_2 |-> d.U1s_2[i], U2s_2 |-> d.U2s_2[i],
         times_4 |-> d.times_4, U1s_4 |-> d.U1s_4[i], U2s_4 |-> d.U2s_4[i]]]

(***************************************************************************)
(* Inputs.                                                                 *)
(***************************************************************************)
\* values of the noise samples the callers supply
NoiseVals == {0, 1}

\* initial conditions
X0Vals == {1, 2}

RECURSIVE SetToSeq(_)
SetToSeq(S) ==
    IF S = {} THEN <<>>
    ELSE LET lo == CHOOSE x \in S : \A y \in S : x <= y
         IN  <<lo>> \o SetToSeq(S \ {lo})

\* the strictly increasing time grids over 0..MaxT whose steps have a square
\* root in the number field
IntegratorGrids ==
    {g \in {SetToSeq(S) : S \in (SUBSET (0..MaxT)) \ {{}}} :
        \A i \in 1..(Len(g) - 1) : g[i + 1] - g[i] \in SqrtDomain}

\* evenly spaced grids of n intervals
EvenGrid(t0, dt, n) == [i \in 1..(n + 1) |-> t0 + (i - 1) * dt]

RefineGrids(n) == {EvenGrid(t0, dt, n) : t0 \in {0, 1}, dt \in {1, 2}}

Numbers(row) == [i \in 1..Len(row) |-> R(row[i])]

NoiseRows(n) == {Numbers(row) : row \in [1..n -> NoiseVals]}

\* a few rows of a given length: zeros, ones, 0 1 0 1 ..., 1 2 3 ...
PatternRows(n) ==
    {[i \in 1..n |-> R(0)], [i \in 1..n |-> R(1)], [i \in 1..n |-> R((i + 1) % 2)],
     [i \in 1..n |-> R(i)]}

Batches(rows, N) == [1..N -> rows]

(***************************************************************************)
(* State.                                                                  *)
(***************************************************************************)
VARIABLES
    phase,      \* "idle", or the operation the caller has started
    di,         \* the double_increments call: its arguments and what it returned
    ig,         \* the integrator call: arguments, loop position, trajectory
    drv,        \* the convergence-driver call
    pool        \* the work items of the driver run by a pool of workers

vars == <<phase, di, ig, drv, pool>>

NoRefine ==
    [times |-> <<>>, U1s |-> <<>>, U2s |-> <<>>, hasU2s |-> FALSE,
     ret |-> [status |-> "none", arity |-> 0, new_times |-> <<>>,
              new_U1s |-> <<>>, new_U2s |-> <<>>]]

NoCall ==
    [fn |-> "none", model |-> "zero", dW_fn |-> "scaled", X0 |-> 0, ts |-> <<>>,
     Us |-> <<>>, U2s |-> <<>>, build |-> "ragged_raises", dts |-> <<>>,
     dWs |-> <<>>, dZs |-> <<>>, iters |-> 0, k |-> 1, X |-> <<>>, calls |-> <<>>,
     pc |-> "none"]

NoDriver ==
    [fn |-> "none", times |-> <<>>, U1s |-> <<>>, U2s |-> <<>>, trajectories |-> 0,
     draws |-> 0, build |-> "ragged_raises", times_2 |-> <<>>, U1s_2 |-> <<>>,
     U2s_2 |-> <<>>, times_4 |-> <<>>, U1s_4 |-> <<>>, U2s_4 |-> <<>>,
     rhos |-> <<>>, pc |-> "none", ret |-> <<>>]

NoPool == [backend |-> "none", heap |-> <<>>, tasks |-> <<>>]

Init == phase = "idle" /\ di = NoRefine /\ ig = NoCall /\ drv = NoDriver /\ pool = NoPool

(***************************************************************************)
(* A caller refines a grid once.                                           *)
(***************************************************************************)
CallDoubleIncrements ==
    /\ phase = "idle"
    /\ \E n \in 0..MaxIntervals, N \in 1..MaxRows :
         /\ n * N <= MaxCells
         /\ \E times \in RefineGrids(n), U1s \in Batches(NoiseRows(n), N) :
              \/ /\ di' = [times |-> times, U1s |-> U1s, U2s |-> NoU2s,
                           hasU2s |-> FALSE,
                           ret |-> double_increments(times, U1s, NoU2s, FALSE)]
              \/ \E U2s \in Batches(PatternRows(n), N) :
                   di' = [times |-> times, U1s |-> U1s, U2s |-> U2s,
                          hasU2s |-> TRUE,
                          ret |-> double_increments(times, U1s, U2s, TRUE)]
    /\ phase' = "refined"
    /\ UNCHANGED <<ig, drv, pool>>

(***************************************************************************)
(* A caller runs one integrator: the call, the loop, the return.           *)
(***************************************************************************)
\* the noise an integrator is handed: one entry per time step, or (for a few
\* inputs) a sequence of another length
NoiseFor(ts, model, X0) ==
    NoiseRows(Len(Dts(ts)))
    \cup (IF model \in {"timedep", "gbm"} /\ X0 = 1
          THEN UNION {NoiseRows(m) : m \in 0..MaxNoiseLen} ELSE {})

CallScalarNoise(fn) ==
    /\ phase = "idle"
    /\ \E model \in ModelNames, X0 \in X0Vals, ts \in IntegratorGrids,
          build \in NumpyBuilds :
         \E Us \in NoiseFor(ts, model, X0) :
            /\ (Len(Us) = Len(Dts(ts)) => build = "ragged_raises")
            /\ ig' = SetUp(fn, model, "scaled", X0, ts, Us, <<>>, build)
    /\ phase' = "integrating"
    /\ UNCHANGED <<di, drv, pool>>

euler == CallScalarNoise("euler")

milstein == CallScalarNoise("milstein")

faulty_milstein == CallScalarNoise("faulty_milstein")

CallMeas(fn) ==
    /\ phase = "idle"
    /\ \E model \in ModelNames, X0 \in X0Vals, ts \in IntegratorGrids,
          dwfn \in DWFnNames :
         \E dMs \in NoiseFor(ts, model, X0) :
            \* a state-dependent dW under a state-dependent diffusion squares
            \* the state at every step: kept to short grids
            /\ (dwfn = "innovation" /\ Models[model].diffusion[2] # 0
                    => Len(ts) <= MaxSquaringSteps + 1)
            /\ ig' = SetUp(fn, model, dwfn, X0, ts, dMs, <<>>, "ragged_raises")
    /\ phase' = "integrating"
    /\ UNCHANGED <<di, drv, pool>>

meas_euler == CallMeas("meas_euler")

meas_milstein == CallMeas("meas_milstein")

time_ind_taylor_1_5 ==
    /\ phase = "idle"
    /\ \E model \in {m \in ModelNames : TimeIndependent(m)}, X0 \in X0Vals,
          ts \in IntegratorGrids :
         \E U1s \in NoiseFor(ts, model, X0) :
            \E U2s \in PatternRows(Len(U1s)) :
               ig' = SetUp("time_ind_taylor_1_5", model, "scaled", X0, ts, U1s,
                           U2s, "ragged_raises")
    /\ phase' = "integrating"
    /\ UNCHANGED <<di, drv, pool>>

\* one iteration of the integrator's for loop
LoopStep ==
    /\ phase = "integrating"
    /\ ig.pc = "loop"
    /\ ig.k <= ig.iters
    /\ ig' = LoopBody(ig)
    /\ UNCHANGED <<phase, di, drv, pool>>

\* return X
Return ==
    /\ phase = "integrating"
    /\ ig.pc = "loop"
    /\ ig.k > ig.iters
    /\ ig' = [ig EXCEPT !.pc = "returned"]
    /\ UNCHANGED <<phase, di, drv, pool>>

(***************************************************************************)
(* A caller runs a convergence driver.                                     *)
(***************************************************************************)
\* rows of the noise the drivers are called with, or draw
DriverU1Rows(n) == {[i \in 1..n |-> R(1)], [i \in 1..n |-> R(i % 2)]}

DriverU2Rows(n) == {[i \in 1..n |-> R(0)], [i \in 1..n |-> R((i + 1) % 2)]}

\* lines 98-100 / 150-152: Us = np.random.randn(1, increments) when Us is None
CallGridConvergence(fn) ==
    /\ phase = "idle"
    /\ \E n \in 0..MaxIntervals, build \in NumpyBuilds, given \in BOOLEAN :
         \E Us \in Batches(NoiseRows(n), 1) :
            drv' = [NoDriver EXCEPT !.fn = fn, !.times = EvenGrid(0, 1, n),
                                    !.U1s = Us, !.trajectories = 1,
                                    !.draws = IF given THEN 0 ELSE 1,
                                    !.build = build, !.pc = "refine"]
    /\ phase' = "driver"
    /\ UNCHANGED <<di, ig, pool>>

milstein_grid_convergence == CallGridConvergence("milstein_grid_convergence")

faulty_milstein_grid_convergence ==
    CallGridConvergence("faulty_milstein_grid_convergence")

\* lines 224-231: U1s, U2s = np.random.randn(trajectories, increments) when None
homodyne_strong_grid_convergence ==
    /\ phase = "idle"
    /\ \E n \in 0..MaxIntervals, N \in 1..MaxRows, given1 \in BOOLEAN,
          given2 \in BOOLEAN :
         \E U1s \in Batches(DriverU1Rows(n), N), U2s \in Batches(DriverU2Rows(n), N) :
            drv' = [NoDriver EXCEPT !.fn = "homodyne_strong_grid_convergence",
                                    !.times = EvenGrid(0, 1, n),
                                    !.U1s = U1s, !.U2s = U2s, !.trajectories = N,
                                    !.draws = (IF given1 THEN 0 ELSE 1)
                                              + (IF given2 THEN 0 ELSE 1),
                                    !.pc = "refine"]
    /\ phase' = "driver"
    /\ UNCHANGED <<di, ig, pool>>

\* lines 104-105 / 156-157 / 235-236: the grid and the noise at 2x and 4x
DriverRefine ==
    /\ phase = "driver"
    /\ drv.pc = "refine"
    /\ drv' = Refined(drv, Refine2(drv.times, drv.U1s, drv.U2s,
                                   drv.fn = "homodyne_strong_grid_convergence"))
    /\ UNCHANGED <<phase, di, ig, pool>>

\* the grid and the noise row of the next integration of lines 107-112 / 159-164
DriverLevel(d) ==
    IF Len(d.rhos) = 0 THEN <<d.times, d.U1s[1]>>
    ELSE IF Len(d.rhos) = 1 THEN <<d.times_2, d.U1s_2[1]>>
    ELSE <<d.times_4, d.U1s_4[1]>>

Integrated(d, r) ==
    [d EXCEPT !.rhos = Append(d.rhos, r),
              !.pc = IF r.pc = "raised" THEN "raised" ELSE "integrate"]

\* lines 107-112 / 159-164: one of the three integrations
DriverIntegrate ==
    /\ phase = "driver"
    /\ drv.pc = "integrate"
    /\ drv.fn # "homodyne_strong_grid_convergence"
    /\ Len(drv.rhos) < 3
    /\ drv' = Integrated(drv, homodyne_gauss_integrate(drv.fn, DriverLevel(drv)[1],
                                     DriverLevel(drv)[2], drv.build))
    /\ UNCHANGED <<phase, di, ig, pool>>

\* lines 114 / 166: return [(rhos, times), (rhos_2, times_2), (rhos_4, times_4)]
DriverReturn ==
    /\ phase = "driver"
    /\ drv.pc = "integrate"
    /\ drv.fn # "homodyne_strong_grid_convergence"
    /\ Len(drv.rhos) = 3
    /\ drv' = [drv EXCEPT !.pc = "returned",
                          !.ret = [i \in 1..3 |->
                                     [kind |-> "trajectory", rhos |-> drv.rhos[i].X,
                                      times |-> drv.rhos[i].ts]]]
    /\ UNCHANGED <<phase, di, ig, pool>>

\* lines 238-265: build the work items and return them
ReturnMetaKwargs ==
    /\ phase = "driver"
    /\ drv.pc = "integrate"
    /\ drv.fn = "homodyne_strong_grid_convergence"
    /\ drv' = [drv EXCEPT !.pc = "returned", !.ret = MetaKwargs(drv)]
    /\ UNCHANGED <<phase, di, ig, pool>>

(***************************************************************************)
(* The work items run homodyne_strong_calc_rate on a pool of NJobs workers *)
(* (lines 246-247).  heap[1] is the keyword_args dict every work item      *)
(* refers to; a process-based pool hands task i its own copy, heap[i + 1]. *)
(***************************************************************************)
NJobs == 2

Backends == {"threads", "processes"}

NoResult == [pc |-> "none", X |-> <<>>, ts |-> <<>>, U1s |-> <<>>, U2s |-> <<>>]

NoRate == [kind |-> "none", coarse |-> Zero, fine |-> Zero]

Queued ==
    [pc |-> "queued", keyword_args_2 |-> prep_homodyne_gauss_1_5,
     keyword_args_4 |-> prep_homodyne_gauss_1_5, rhos |-> NoResult,
     rhos_2 |-> NoResult, rhos_4 |-> NoResult, rate |-> NoRate]

Running(t) == t.pc \notin {"queued", "done", "raised"}

\* the slot of the heap that task i's keyword_args names
Holder(i) == IF pool.backend = "threads" THEN 1 ELSE i + 1

StartPool ==
    /\ phase = "driver"
    /\ drv.fn = "homodyne_strong_grid_convergence"
    /\ drv.pc = "returned"
    /\ drv.draws = 0
    /\ \E b \in Backends :
         pool' = [backend |-> b,
                  heap |-> [h \in 1..(Len(drv.ret) + 1) |-> prep_homodyne_gauss_1_5],
                  tasks |-> [i \in 1..Len(drv.ret) |-> Queued]]
    /\ phase' = "pool"
    /\ UNCHANGED <<di, ig, drv>>

TaskStep(i, from, task, heap) ==
    /\ phase = "pool"
    /\ i <= Len(pool.tasks)
    /\ pool.tasks[i].pc = from
    /\ pool' = [pool EXCEPT !.tasks[i] = task, !.heap = heap]
    /\ UNCHANGED <<phase, di, ig, drv>>

\* a free worker takes the next work item
Dispatch(i) ==
    /\ phase = "pool"
    /\ i <= Len(pool.tasks)
    /\ Cardinality({j \in 1..Len(pool.tasks) : Running(pool.tasks[j])}) < NJobs
    /\ \A j \in 1..(i - 1) : pool.tasks[j].pc # "queued"
    /\ TaskStep(i, "queued", [pool.tasks[i] EXCEPT !.pc = "l170"],
                [pool.heap EXCEPT ![i + 1] = pool.heap[1]])

\* keyword_args_2 = keyword_args.copy()
Copy2(i) ==
    TaskStep(i, "l170",
             [pool.tasks[i] EXCEPT !.pc = "l171",
                                   !.keyword_args_2 = pool.heap[Holder(i)]],
             pool.heap)

\* keyword_args_4 = keyword_args.copy()
Copy4(i) ==
    TaskStep(i, "l171",
             [pool.tasks[i] EXCEPT !.pc = "l173",
                                   !.keyword_args_4 = pool.heap[Holder(i)]],
             pool.heap)

\* keyword_args.update({'ts': times, 'U1s': U1s, 'U2s': U2s})
UpdateKeywordArgs(i) ==
    LET w == drv.ret[i]
    IN  TaskStep(i, "l173", [pool.tasks[i] EXCEPT !.pc = "l174"],
                 [pool.heap EXCEPT ![Holder(i)] = Update(@, w.times, w.U1s, w.U2s)])

\* keyword_args_2.update(...); keyword_args_4.update(...)
UpdateCopies(i) ==
    LET w == drv.ret[i]
    IN  TaskStep(i, "l174",
                 [pool.tasks[i] EXCEPT
                    !.pc = "l177",
                    !.keyword_args_2 = Update(@, w.times_2, w.U1s_2, w.U2s_2),
                    !.keyword_args_4 = Update(@, w.times_4, w.U1s_4, w.U2s_4)],
                 pool.heap)

AfterFine(t, r) ==
    [t EXCEPT !.pc = IF r.pc = "raised" THEN "raised" ELSE "l178", !.rhos = r]

\* rhos = integrator_fn(**keyword_args)
CallFine(i) ==
    TaskStep(i, "l177",
             AfterFine(pool.tasks[i], integrator_fn(pool.heap[Holder(i)])),
             pool.heap)

AfterCoarse(t, r2, r4) ==
    IF r2.pc = "raised" THEN [t EXCEPT !.pc = "raised", !.rhos_2 = r2]
    ELSE IF r4.pc = "raised"
    THEN [t EXCEPT !.pc = "raised", !.rhos_2 = r2, !.rhos_4 = r4]
    ELSE [t EXCEPT !.pc = "done", !.rhos_2 = r2, !.rhos_4 = r4,
                   !.rate = Rate(t.rhos.X, r2.X, r4.X)]

\* rhos_2 = ...; rhos_4 = ...; rate = ...; return rate
CallCoarseAndRate(i) ==
    TaskStep(i, "l178",
             AfterCoarse(pool.tasks[i], integrator_fn(pool.tasks[i].keyword_args_2),
                         integrator_fn(pool.tasks[i].keyword_args_4)),
             pool.heap)

Tasks == 1..MaxRows

\* the caller refines a grid
RefineNext == CallDoubleIncrements

\* the caller runs one integrator
IntegrateNext ==
    \/ euler
    \/ milstein
    \/ faulty_milstein
    \/ meas_euler
    \/ meas_milstein
    \/ time_ind_taylor_1_5
    \/ LoopStep
    \/ Return

\* the caller runs one of the two measurement-record integrators
MeasNext ==
    \/ meas_euler
    \/ meas_milstein
    \/ LoopStep
    \/ Return

\* the caller runs milstein or faulty_milstein
MilsteinNext ==
    \/ milstein
    \/ faulty_milstein
    \/ LoopStep
    \/ Return

\* the caller runs one convergence driver
DriverCallNext ==
    \/ milstein_grid_convergence
    \/ faulty_milstein_grid_convergence
    \/ homodyne_strong_grid_convergence
    \/ DriverRefine
    \/ DriverIntegrate
    \/ DriverReturn
    \/ ReturnMetaKwargs

\* a pool runs the work items the driver returned
PoolNext ==
    \/ StartPool
    \/ \E i \in Tasks : Dispatch(i)
    \/ \E i \in Tasks : Copy2(i)
    \/ \E i \in Tasks : Copy4(i)
    \/ \E i \in Tasks : UpdateKeywordArgs(i)
    \/ \E i \in Tasks : UpdateCopies(i)
    \/ \E i \in Tasks : CallFine(i)
    \/ \E i \in Tasks : CallCoarseAndRate(i)

\* the caller runs one convergence driver, and a pool runs the work items
DriverNext ==
    \/ DriverCallNext
    \/ PoolNext

Next ==
    \/ RefineNext
    \/ IntegrateNext
    \/ DriverNext

Spec == Init /\ [][Next]_vars

\* the three kinds of call, each on its own
SpecRefine == Init /\ [][RefineNext]_vars

SpecIntegrate == Init /\ [][IntegrateNext]_vars

SpecDriver == Init /\ [][DriverNext]_vars

SpecMeas == Init /\ [][MeasNext]_vars

SpecMilstein == Init /\ [][MilsteinNext]_vars

SpecDriverCall == Init /\ [][DriverCallNext]_vars

(***************************************************************************)
(* Properties.                                                             *)
(***************************************************************************)
RefineReturned == phase = "refined"

Intervals(times) == Len(times) - 1

EvenGridRefined == RefineReturned /\ Intervals(di.times) % 2 = 0

\* C1: on a grid with an even number L-1 of intervals and noise rows of length
\* L-1, double_increments returns new_times = times[::2] ((L-1)/2 intervals),
\* refined U1 rows of (L-1)/2 entries, and a refined U2s exactly when U2s was
\* supplied (a pair without, a triple with).
C1_RefineShape ==
    EvenGridRefined =>
        /\ di.ret.status = "ok"
        /\ Intervals(di.ret.new_times) = Intervals(di.times) \div 2
        /\ \A i \in 1..Len(di.ret.new_times) : di.ret.new_times[i] = di.times[2 * i - 1]
        /\ Len(di.ret.new_U1s) = Len(di.U1s)
        /\ \A r \in 1..Len(di.ret.new_U1s) :
              Len(di.ret.new_U1s[r]) = Intervals(di.times) \div 2
        /\ di.ret.arity = (IF di.hasU2s THEN 3 ELSE 2)
        /\ di.hasU2s =>
              /\ Len(di.ret.new_U2s) = Len(di.U2s)
              /\ \A r \in 1..Len(di.ret.new_U2s) :
                    Len(di.ret.new_U2s[r]) = Intervals(di.times) \div 2
        /\ ~di.hasU2s => di.ret.new_U2s = <<>>

C1_Witness ==
    /\ EvenGridRefined
    /\ Intervals(di.times) = 4
    /\ di.hasU2s
    /\ di.ret.arity = 3
    /\ Len(di.ret.new_times) = 3

\* C2: on an even-interval grid, for every row r and output index n,
\* sqrt(2)*U1s'[r][n] = U1s[r][2n] + U1s[r][2n+1] and, when U2s is given,
\* 2*sqrt(2)*U2s'[r][n] = sqrt(3)*(U1s[r][2n] - U1s[r][2n+1]) + U2s[r][2n]
\* + U2s[r][2n+1] (indices from 0): only the pair 2n, 2n+1 of the same row.
C2_RefineValues ==
    EvenGridRefined /\ di.ret.status = "ok" =>
        \A r \in 1..Len(di.U1s) : \A n \in 1..Len(di.ret.new_U1s[r]) :
            /\ Mul(Sqrt2, di.ret.new_U1s[r][n])
                  = Add(di.U1s[r][2 * n - 1], di.U1s[r][2 * n])
            /\ di.hasU2s =>
                  Mul(Mul(R(2), Sqrt2), di.ret.new_U2s[r][n])
                     = Add(Mul(Sqrt3, Sub(di.U1s[r][2 * n - 1], di.U1s[r][2 * n])),
                           Add(di.U2s[r][2 * n - 1], di.U2s[r][2 * n]))

C2_Witness ==
    /\ EvenGridRefined
    /\ Intervals(di.times) = 2
    /\ Len(di.U1s) = 2
    /\ di.hasU2s
    /\ di.U1s[1] # di.U1s[2]
    /\ di.U1s[1][1] # di.U1s[1][2]
    /\ di.U2s[2][1] # di.U2s[2][2]
    /\ di.ret.status = "ok"

Integrating(fns) == phase = "integrating" /\ ig.fn \in fns

\* the call's noise has one entry per time step
NoiseMatches ==
    /\ Len(ig.Us) = Len(ig.ts) - 1
    /\ ig.fn = "time_ind_taylor_1_5" => Len(ig.U2s) = Len(ig.ts) - 1

\* row i+1 as the scheme computes it from row i, t_i, t_{i+1} - t_i and the
\* noise of step i
RowFrom(i) ==
    LET dt == ig.ts[i + 1] - ig.ts[i]
        dW == Mul(ig.Us[i], SqrtInt(dt))
        dZ == IF ig.fn # "time_ind_taylor_1_5" THEN Zero
              ELSE Div(Mul(Mul(Add(ig.Us[i], Div(ig.U2s[i], Sqrt3)), SqrtInt(dt)),
                           R(dt)), R(2))
    IN  Add(ig.X[i], Increment(ig.fn, Models[ig.model], ig.X[i], ig.ts[i], dt, dW, dZ))

\* C3: euler, milstein, faulty_milstein and time_ind_taylor_1_5, called with L
\* time points and L-1 noise entries, never raise; the first row is X0, rows
\* are appended in increasing order of i, row i+1 is computed from row i, t_i,
\* t_{i+1} - t_i and the noise of step i, and the trajectory returned has L rows.
C3_Trajectory ==
    Integrating(ScalarNoise \cup {"time_ind_taylor_1_5"}) /\ NoiseMatches =>
        /\ ig.pc \in {"loop", "returned"}
        /\ ig.X[1] = R(ig.X0)
        /\ Len(ig.X) = ig.k
        /\ ig.pc = "returned" => Len(ig.X) = Len(ig.ts)
        /\ \A i \in 1..(Len(ig.X) - 1) : ig.X[i + 1] = RowFrom(i)

C3_Witness ==
    /\ Integrating({"faulty_milstein"})
    /\ NoiseMatches
    /\ ig.model = "timedep"
    /\ ig.pc = "returned"
    /\ Len(ig.X) = 4
    /\ ig.X[4] # ig.X[1]

\* C4: double_increments called with an odd number of intervals raises an
\* error, and returns nothing computed by truncating or broadcasting samples.
C4_OddGridRaises ==
    RefineReturned /\ Intervals(di.times) % 2 = 1 => di.ret.status = "ValueError"

\* C5: every integrator called with a noise or measurement sequence whose
\* length differs from len(times) - 1 raises an error: it neither runs its loop
\* nor returns a trajectory.
C5_MismatchRaises ==
    Integrating(Integrators) /\ Len(ig.Us) # Len(ig.ts) - 1 => ig.pc = "raised"

AllZeroNoise ==
    /\ \A i \in 1..Len(ig.Us) : ig.Us[i] = Zero
    /\ \A i \in 1..Len(ig.U2s) : ig.U2s[i] = Zero

ZeroDrift == Models[ig.model].drift = ZeroFn

Returned(fns) == Integrating(fns) /\ ig.pc = "returned"

StaysAtX0 == \A i \in 1..Len(ig.X) : ig.X[i] = R(ig.X0)

\* C6 as stated: with all noise 0 and a zero drift, euler, milstein and
\* time_ind_taylor_1_5 return X0 in every row, whatever the other callables.
C6_Original ==
    Returned({"euler", "milstein", "time_ind_taylor_1_5"}) /\ AllZeroNoise /\ ZeroDrift
        => StaysAtX0

\* the callables that multiply a power of dt alone vanish at X0
CorrectionsVanish ==
    LET m == Models[ig.model]
        x == R(ig.X0)
    IN  /\ ig.fn = "milstein" =>
              \A i \in 1..(Len(ig.ts) - 1) : Call2(m.b_dx_b, x, ig.ts[i]) = Zero
        /\ ig.fn = "time_ind_taylor_1_5" =>
              /\ Call1(m.b_dx_b, x) = Zero
              /\ Add(Call1(m.a_dx_a, x), Div(Call1(m.b_b_dx_dx_a, x), R(2))) = Zero

\* C6 (amended): with all noise 0 and a zero drift, euler returns X0 in every
\* row for any diffusion; milstein does when b_dx_b vanishes at X0, and
\* time_ind_taylor_1_5 when b_dx_b and a_dx_a + b_b_dx_dx_a/2 vanish at X0.
C6_ZeroNoiseDriftless ==
    /\ Returned({"euler", "milstein", "time_ind_taylor_1_5"})
    /\ AllZeroNoise
    /\ ZeroDrift
    /\ CorrectionsVanish
    => StaysAtX0

C6_Witness ==
    /\ Returned({"milstein"})
    /\ NoiseMatches
    /\ AllZeroNoise
    /\ ig.model = "additive"
    /\ Len(ig.X) = 4
    /\ StaysAtX0

ConstDrift == Models["const"].drift[1]

EulerConstDrift == Integrating({"euler"}) /\ ig.model = "const" /\ NoiseMatches

\* C7 as stated: for a(X,t) = k and b = 0, euler returns X0 + k*t_i at every
\* grid point t_i.
C7_Original ==
    EulerConstDrift /\ ig.pc = "returned" =>
        \A i \in 1..Len(ig.ts) : ig.X[i] = R(ig.X0 + ConstDrift * ig.ts[i])

\* C7 (amended): for a(X,t) = k and b = 0, euler over a strictly increasing
\* grid with noise of length len(ts) - 1 returns one row per grid point, the
\* row at t_i being X0 + k*(t_i - t_0).
C7_ConstantDrift ==
    EulerConstDrift =>
        /\ ig.pc \in {"loop", "returned"}
        /\ ig.pc = "returned" => Len(ig.X) = Len(ig.ts)
        /\ \A i \in 1..Len(ig.X) :
              ig.X[i] = R(ig.X0 + ConstDrift * (ig.ts[i] - ig.ts[1]))

C7_Witness ==
    /\ EulerConstDrift
    /\ ig.pc = "returned"
    /\ ig.ts = <<1, 2, 4>>
    /\ ig.Us = <<R(1), R(1)>>
    /\ ig.X[3] = R(ig.X0 + 3 * ConstDrift)

DriverDone(fn) == phase \in {"driver", "pool"} /\ drv.fn = fn /\ drv.pc = "returned"

\* C8: homodyne_strong_grid_convergence returns one numeric rate per
\* trajectory (or raises); it returns nothing else.
C8_ReturnsRates ==
    DriverDone("homodyne_strong_grid_convergence") =>
        /\ Len(drv.ret) = drv.trajectories
        /\ \A i \in 1..Len(drv.ret) : drv.ret[i].kind = "rate"

\* the outcome of work item i when the work items run one after another
Alone(i, level) ==
    LET w == drv.ret[i]
    IN  IF level = 1
        THEN integrator_fn(Update(prep_homodyne_gauss_1_5, w.times, w.U1s, w.U2s))
        ELSE IF level = 2
        THEN integrator_fn(Update(prep_homodyne_gauss_1_5, w.times_2, w.U1s_2, w.U2s_2))
        ELSE integrator_fn(Update(prep_homodyne_gauss_1_5, w.times_4, w.U1s_4, w.U2s_4))

\* C9: however the work items interleave, each integrator call of work item i
\* receives item i's own times, U1 and U2 of its resolution, so that its rate
\* is the rate it has when the items run one after another.
C9_NoSharedState ==
    phase = "pool" =>
        \A i \in 1..Len(pool.tasks) :
            LET t == pool.tasks[i]
            IN  /\ t.rhos.pc # "none" => t.rhos = Alone(i, 1)
                /\ t.rhos_2.pc # "none" => t.rhos_2 = Alone(i, 2)
                /\ t.rhos_4.pc # "none" => t.rhos_4 = Alone(i, 4)
                /\ t.pc = "done" =>
                      t.rate = Rate(Alone(i, 1).X, Alone(i, 2).X, Alone(i, 4).X)

\* C10: a convergence driver called with an interval count that is not a
\* multiple of 4 raises before any trajectory is integrated and never returns.
C10_GridValidated ==
    /\ phase \in {"driver", "pool"}
    /\ Intervals(drv.times) % 4 # 0
    /\ drv.pc # "refine"
    => drv.pc = "raised" /\ Len(drv.rhos) = 0

Homodyne == drv.fn = "homodyne_strong_grid_convergence"

\* the driver has refined its noise without an error
DriverRefined ==
    /\ phase \in {"driver", "pool"}
    /\ drv.pc \in {"integrate", "returned"} \/ Len(drv.rhos) > 0

\* the three grids and noise arrays are the fine ones and r, their refinements
RefinementsOf(r) ==
    /\ r.status = "ok"
    /\ r.r4.status = "ok"
    /\ drv.times_2 = r.r2.new_times
    /\ drv.U1s_2 = r.r2.new_U1s
    /\ drv.U2s_2 = r.r2.new_U2s
    /\ drv.times_4 = r.r4.new_times
    /\ drv.U1s_4 = r.r4.new_U1s
    /\ drv.U2s_4 = r.r4.new_U2s

\* integration k of a Milstein driver ran on the grid and on row 0 of the noise
\* of resolution k
IntegrationsOf(r) ==
    \A k \in 1..Len(drv.rhos) :
        /\ drv.rhos[k].ts = <<drv.times, r.r2.new_times, r.r4.new_times>>[k]
        /\ drv.rhos[k].U1s = <<drv.U1s, r.r2.new_U1s, r.r4.new_U1s>>[k][1]

\* work item i holds row i of the noise of every resolution
WorkItemsOf(r) ==
    /\ Len(drv.ret) = drv.trajectories
    /\ \A i \in 1..Len(drv.ret) :
          /\ drv.ret[i].U1s = drv.U1s[i]
          /\ drv.ret[i].U2s = drv.U2s[i]
          /\ drv.ret[i].U1s_2 = r.r2.new_U1s[i]
          /\ drv.ret[i].U2s_2 = r.r2.new_U2s[i]
          /\ drv.ret[i].U1s_4 = r.r4.new_U1s[i]
          /\ drv.ret[i].U2s_4 = r.r4.new_U2s[i]
          /\ drv.ret[i].times = drv.times
          /\ drv.ret[i].times_2 = r.r2.new_times
          /\ drv.ret[i].times_4 = r.r4.new_times

OneNoisePath(r) ==
    /\ RefinementsOf(r)
    /\ drv.draws <= (IF Homodyne THEN 2 ELSE 1)
    /\ ~Homodyne => IntegrationsOf(r)
    /\ Homodyne /\ drv.pc = "returned" => WorkItemsOf(r)

\* C11: in every driver the 2x and 4x noise of a trajectory is double_increments
\* applied once and twice to that trajectory's fine noise (given, or drawn once
\* per array); the Milstein drivers integrate on row 0 of each resolution, and
\* work item i holds row i of each.
C11_OneNoisePath ==
    DriverRefined => OneNoisePath(Refine2(drv.times, drv.U1s, drv.U2s, Homodyne))

C11_Witness ==
    /\ phase = "driver"
    /\ Homodyne
    /\ drv.pc = "returned"
    /\ drv.draws = 1
    /\ Intervals(drv.times) = 4
    /\ drv.trajectories = 2
    /\ drv.U1s[1] # drv.U1s[2]
    /\ drv.ret[1].U1s_2 # drv.ret[2].U1s_2
    /\ drv.ret[2].U1s_4 = drv.U1s_4[2]

\* a*dt + b*dW of step i, from the coefficient callables
EulerTerms(i) ==
    Add(Mul(Call2(Models[ig.model].drift, ig.X[i], ig.ts[i]), R(ig.dts[i])),
        Mul(Call2(Models[ig.model].diffusion, ig.X[i], ig.ts[i]), ig.dWs[i]))

\* c*(dW^2 - dt) of step i, with c = b_dx_b(X_i, t_i)
CorrectionTerm(i) ==
    Mul(Call2(Models[ig.model].b_dx_b, ig.X[i], ig.ts[i]),
        Sub(Mul(ig.dWs[i], ig.dWs[i]), R(ig.dts[i])))

\* what step i added to the state, less a*dt + b*dW
BeyondEuler(i) == Sub(Sub(ig.X[i + 1], ig.X[i]), EulerTerms(i))

\* the row a milstein step gives from the state, time, dt and dW of step i
MilsteinRow(i) ==
    Add(ig.X[i], Increment("milstein", Models[ig.model], ig.X[i], ig.ts[i],
                           ig.dts[i], ig.dWs[i], Zero))

\* C12: a faulty_milstein step adds a*dt + b*dW + c*(dW^2 - dt), a milstein
\* step a*dt + b*dW + c*(dW^2 - dt)/2, with c = b_dx_b(X_i, t_i); from the same
\* X_i, t_i, dt and dW the faulty row exceeds the milstein row by c*(dW^2 - dt)/2.
C12_FaultyMilstein ==
    Integrating({"milstein", "faulty_milstein"}) /\ ig.pc # "raised" =>
        \A i \in 1..(Len(ig.X) - 1) :
            /\ ig.fn = "milstein" => Mul(R(2), BeyondEuler(i)) = CorrectionTerm(i)
            /\ ig.fn = "faulty_milstein" =>
                  /\ BeyondEuler(i) = CorrectionTerm(i)
                  /\ Mul(R(2), Sub(ig.X[i + 1], MilsteinRow(i))) = CorrectionTerm(i)

C12_Witness ==
    /\ Integrating({"faulty_milstein"})
    /\ ig.pc = "returned"
    /\ NoiseMatches
    /\ ig.model = "gbm"
    /\ Len(ig.X) = 3
    /\ CorrectionTerm(2) # Zero
    /\ ig.X[3] # MilsteinRow(2)

\* the scheme a measurement-record integrator shares its update rule with
BaseScheme == IF ig.fn = "meas_euler" THEN "euler" ELSE "milstein"

\* what the call of step i returned
DWOfCall(i) ==
    dW_fn(ig.dW_fn, ig.calls[i].dM, ig.calls[i].dt, ig.calls[i].X, ig.calls[i].t)

\* dW_fn has been called once for each step taken, in time order, with the
\* step's measurement, dt, the state before the step and the step's start time
CalledOncePerStep ==
    /\ Len(ig.calls) = Len(ig.X) - 1
    /\ \A i \in 1..Len(ig.calls) :
          ig.calls[i] = [dM |-> ig.Us[i], dt |-> ig.ts[i + 1] - ig.ts[i],
                         X |-> ig.X[i], t |-> ig.ts[i]]

\* each step used the result of its call as its Wiener increment
ResultUsed ==
    \A i \in 1..Len(ig.calls) :
        ig.X[i + 1] = Add(ig.X[i], Increment(BaseScheme, Models[ig.model], ig.X[i],
                                             ig.ts[i], ig.ts[i + 1] - ig.ts[i],
                                             DWOfCall(i), Zero))

\* the trajectory BaseScheme returns for the same coefficients, X0, grid and
\* samples
BaseTrajectory ==
    Integrate(BaseScheme, ig.model, "scaled", ig.X0, ig.ts, ig.Us, <<>>,
              "ragged_raises")

\* C13: meas_euler and meas_milstein call dW_fn once per step, in time order,
\* with (dM_i, t_{i+1} - t_i, X_i, t_i), and use the result as the step's
\* Wiener increment; with one sample per step and dW_fn returning
\* U_i*sqrt(dt_i) they return the trajectory euler, resp. milstein, returns.
C13_MeasurementRecord ==
    Integrating(MeasFns) =>
        /\ CalledOncePerStep
        /\ ResultUsed
        /\ ig.pc = "returned" /\ ig.dW_fn = "scaled" /\ NoiseMatches =>
              /\ BaseTrajectory.pc = "returned"
              /\ ig.X = BaseTrajectory.X

C13_Witness ==
    /\ Integrating({"meas_milstein"})
    /\ ig.pc = "returned"
    /\ ig.dW_fn = "scaled"
    /\ NoiseMatches
    /\ ig.model = "gbm"
    /\ Len(ig.calls) = 3
    /\ ig.calls[3].X # ig.calls[1].X
    /\ ig.X = BaseTrajectory.X

\* W(t_j) - W(t_0): the sum of the first j Wiener increments
RECURSIVE WienerPath(_, _)
WienerPath(dWs, j) == IF j = 0 THEN Zero ELSE Add(WienerPath(dWs, j - 1), dWs[j])

\* the Wiener increments the integrators build from a grid and a row of samples
IncrementsOn(times, Us) == DWs(Dts(times), Us)

EvenlySpaced(times) ==
    \A i \in 2..(Len(times) - 1) : times[i + 1] - times[i] = times[2] - times[1]

\* coarse, built on a grid of every stride-th point of the fine grid, is the
\* same path: each increment is the sum of the fine ones it covers, and the
\* path agrees at every retained point
SamePath(fine, coarse, stride) ==
    /\ Len(coarse) * stride = Len(fine)
    /\ \A n \in 1..Len(coarse) :
          coarse[n] = Sub(WienerPath(fine, stride * n), WienerPath(fine, stride * (n - 1)))
    /\ \A j \in 0..Len(coarse) : WienerPath(coarse, j) = WienerPath(fine, stride * j)

\* the refinement of the grid and samples that double_increments returned
Again(ret) == double_increments(ret.new_times, ret.new_U1s, ret.new_U2s, di.hasU2s)

\* the 4x grid ends where the fine grid ends, with the same displacement
SameEnd(r4, row) ==
    /\ r4.status = "ok"
    /\ Last(r4.new_times) = Last(di.times)
    /\ Last(di.ret.new_times) = Last(di.times)
    /\ SamePath(IncrementsOn(di.times, di.U1s[row]),
                IncrementsOn(r4.new_times, r4.new_U1s[row]), 4)

\* C14: on an evenly spaced grid with an even interval count the Wiener
\* increment built from a refined sample is the sum of the two fine increments
\* it covers, U1s'[n]*sqrt(2*dt) = (U1s[2n] + U1s[2n+1])*sqrt(dt), so the
\* accumulated path agrees at every retained point; when the count is a
\* multiple of 4 the same holds of the second refinement, and the three grids
\* end at the same time with the same total displacement.
C14_SameWienerPath ==
    EvenGridRefined /\ EvenlySpaced(di.times) /\ di.ret.status = "ok" =>
        \A row \in 1..Len(di.U1s) :
            /\ SamePath(IncrementsOn(di.times, di.U1s[row]),
                        IncrementsOn(di.ret.new_times, di.ret.new_U1s[row]), 2)
            /\ Intervals(di.times) > 0 /\ Intervals(di.times) % 4 = 0 =>
                  SameEnd(Again(di.ret), row)

C14_Witness ==
    /\ EvenGridRefined
    /\ EvenlySpaced(di.times)
    /\ Intervals(di.times) = 4
    /\ di.times[2] - di.times[1] = 2
    /\ di.U1s[1] = <<R(1), R(0), R(1), R(1)>>
    /\ Again(di.ret).status = "ok"
    /\ Len(Again(di.ret).new_U1s[1]) = 1
    /\ WienerPath(IncrementsOn(di.times, di.U1s[1]), 4) # Zero

====
